---- MODULE Spec2Model ----
(***************************************************************************)
(* Model of build_colliers_rss.py: the Colliers listing scan               *)
(* (get_colliers_items), the Northmarq load-more scan                      *)
(* (get_northmarq_items) and the cross-source merge (merge_items).         *)
(*                                                                         *)
(* Texts and URLs are strings and are processed character by character,   *)
(* as str.lower, the "in" operator, urljoin/urlparse and the regular       *)
(* expressions of the program do.  A datetime is the tuple                 *)
(* <<year, month, day>> (every datetime of the program is UTC midnight),   *)
(* compared lexicographically; None is the empty tuple.  A dict is the     *)
(* sequence of its values in insertion order.                              *)
(***************************************************************************)
EXTENDS Integers, Sequences, FiniteSets, TLC

VARIABLES
    pc,        \* the function running and its position
    doc,       \* get_colliers_items: the parsed listing page, in document order
    elements,  \* get_colliers_items: positions of doc selected for scanning
    idx,       \* loop position: in elements, in articles, or in the current list
    limit,     \* limit / total_limit argument
    pages,     \* get_northmarq_items: pages argument
    page,      \* get_northmarq_items: current page number
    articles,  \* get_northmarq_items: <article> cards of the fetched page
    lists,     \* merge_items: the lists argument
    li,        \* merge_items: index of the current list
    by_url,    \* the by_url dict of the running function
    items      \* the returned list

vars == <<pc, doc, elements, idx, limit, pages, page, articles, lists, li, by_url, items>>

-----------------------------------------------------------------------------
(* Bounds of the model *)

MaxDoc == 4        \* elements of a Colliers page with headings
MaxAnchors == 2    \* anchors of a Colliers page without headings
MaxLimit == 2      \* largest limit argument
MaxPages == 2      \* largest pages argument
MaxArticles == 2   \* <article> cards per Northmarq page
MaxList == 2       \* records per input list of merge_items

-----------------------------------------------------------------------------
(* Strings *)

NoDate == <<>>

LowerChar(c) ==
    CASE c = "A" -> "a" [] c = "B" -> "b" [] c = "C" -> "c" [] c = "D" -> "d"
      [] c = "E" -> "e" [] c = "F" -> "f" [] c = "G" -> "g" [] c = "H" -> "h"
      [] c = "I" -> "i" [] c = "J" -> "j" [] c = "K" -> "k" [] c = "L" -> "l"
      [] c = "M" -> "m" [] c = "N" -> "n" [] c = "O" -> "o" [] c = "P" -> "p"
      [] c = "Q" -> "q" [] c = "R" -> "r" [] c = "S" -> "s" [] c = "T" -> "t"
      [] c = "U" -> "u" [] c = "V" -> "v" [] c = "W" -> "w" [] c = "X" -> "x"
      [] c = "Y" -> "y" [] c = "Z" -> "z" [] OTHER -> c

RECURSIVE Lower(_)
Lower(s) ==
    IF s = "" THEN "" ELSE LowerChar(SubSeq(s, 1, 1)) \o Lower(SubSeq(s, 2, Len(s)))

\* the element of a one-element set; The({e : v \in {x}}) is e with x for v,
\* x evaluated once
The(S) == CHOOSE r \in S : TRUE

StartsWith(s, p) == Len(s) >= Len(p) /\ SubSeq(s, 1, Len(p)) = p

\* Python's "n in s"
Contains(s, n) == \E i \in 1..(Len(s) - Len(n) + 1) : SubSeq(s, i, i + Len(n) - 1) = n

\* position of the first c in s, or 0
IndexOf(s, c) ==
    IF \E i \in 1..Len(s) : SubSeq(s, i, i) = c
    THEN CHOOSE i \in 1..Len(s) :
            /\ SubSeq(s, i, i) = c
            /\ \A j \in 1..(i - 1) : SubSeq(s, j, j) # c
    ELSE 0

\* the part of s before the first c (all of s when there is none)
Before(s, c) == IF IndexOf(s, c) = 0 THEN s ELSE SubSeq(s, 1, IndexOf(s, c) - 1)

RECURSIVE Strip(_)
Strip(s) ==
    IF s = "" THEN ""
    ELSE IF SubSeq(s, 1, 1) = " " THEN Strip(SubSeq(s, 2, Len(s)))
    ELSE IF SubSeq(s, Len(s), Len(s)) = " " THEN Strip(SubSeq(s, 1, Len(s) - 1))
    ELSE s

IsDigit(c) == c \in {"0", "1", "2", "3", "4", "5", "6", "7", "8", "9"}

DigitVal(c) ==
    CASE c = "0" -> 0 [] c = "1" -> 1 [] c = "2" -> 2 [] c = "3" -> 3 [] c = "4" -> 4
      [] c = "5" -> 5 [] c = "6" -> 6 [] c = "7" -> 7 [] c = "8" -> 8 [] c = "9" -> 9

AllDigits(s) == \A i \in 1..Len(s) : IsDigit(SubSeq(s, i, i))

RECURSIVE ToInt(_)
ToInt(s) ==
    IF s = "" THEN 0
    ELSE 10 * ToInt(SubSeq(s, 1, Len(s) - 1)) + DigitVal(SubSeq(s, Len(s), Len(s)))

-----------------------------------------------------------------------------
(* Shared helpers *)

EPOCH == <<1970, 1, 1>>

\* datetime comparison a < b
DateLess(a, b) ==
    \/ a[1] < b[1]
    \/ a[1] = b[1] /\ a[2] < b[2]
    \/ a[1] = b[1] /\ a[2] = b[2] /\ a[3] < b[3]

HasScheme(href) == StartsWith(Lower(href), "http://") \/ StartsWith(Lower(href), "https://")

\* scheme://host of an absolute URL
Origin(u) ==
    LET k    == IndexOf(u, ":")
        rest == SubSeq(u, k + 3, Len(u))
    IN  SubSeq(u, 1, k + 2) \o Before(rest, "/")

\* urljoin(base, href) for an absolute URL, a scheme-relative one, or an
\* absolute path; any other href is resolved against the directory of base
urljoin(base, href) ==
    IF href = "" THEN base
    ELSE IF HasScheme(href) THEN href
    ELSE IF StartsWith(href, "//") THEN SubSeq(base, 1, IndexOf(base, ":")) \o href
    ELSE IF StartsWith(href, "/") THEN Origin(base) \o href
    ELSE Origin(base) \o "/" \o href

RECURSIVE RStripSlash(_)
RStripSlash(s) ==
    IF s # "" /\ SubSeq(s, Len(s), Len(s)) = "/"
    THEN RStripSlash(SubSeq(s, 1, Len(s) - 1))
    ELSE s

normalize_url(base, href) ==
    RStripSlash(Before(Before(urljoin(base, href), "#"), "?"))

RECURSIVE uniq_preserve(_)
uniq_preserve(seq) ==
    IF seq = <<>> THEN <<>>
    ELSE LET init == uniq_preserve(SubSeq(seq, 1, Len(seq) - 1))
             x    == seq[Len(seq)]
         IN  IF \E i \in 1..Len(init) : init[i] = x THEN init ELSE Append(init, x)

\* a lookup that never finds the key
LookupNone(m, url) == 0

\* dict.get(url) on the insertion-ordered dict m: the position of the
\* record stored under url, 0 when there is none
Lookup(m, url) ==
    IF \E k \in 1..Len(m) : m[k].url = url
    THEN CHOOSE k \in 1..Len(m) : m[k].url = url
    ELSE 0

\* the sort key  x.get("published") or EPOCH
SortKey(r) == IF r.published = NoDate THEN EPOCH ELSE r.published

\* an insertion that leaves the list in discovery order
InsertUnsorted(s, r) == Append(s, r)

\* one insertion of list.sort(key, reverse=True), which is stable: r goes
\* after every element whose key is not smaller than its own
InsertDesc(s, r) ==
    LET n == Cardinality({i \in 1..Len(s) : ~DateLess(SortKey(s[i]), SortKey(r))})
        \* a descending s has its keys >= key(r) in front
    IN  SubSeq(s, 1, n) \o <<r>> \o SubSeq(s, n + 1, Len(s))

RECURSIVE SortItems(_)
SortItems(s) ==
    IF s = <<>> THEN <<>>
    ELSE InsertDesc(SortItems(SubSeq(s, 1, Len(s) - 1)), s[Len(s)])

\* items[:limit]
Truncate(s, n) == SubSeq(s, 1, IF n < Len(s) THEN n ELSE Len(s))

-----------------------------------------------------------------------------
(* Colliers: top News section only *)

Months == {"Jan", "Feb", "Mar", "Apr", "May", "Jun", "Jul", "Aug", "Sep", "Oct", "Nov", "Dec"}

MonthNum(m) ==
    CASE m = "Jan" -> 1 [] m = "Feb" -> 2 [] m = "Mar" -> 3 [] m = "Apr" -> 4
      [] m = "May" -> 5 [] m = "Jun" -> 6 [] m = "Jul" -> 7 [] m = "Aug" -> 8
      [] m = "Sep" -> 9 [] m = "Oct" -> 10 [] m = "Nov" -> 11 [] m = "Dec" -> 12

DaysIn(y, m) ==
    IF m \in {4, 6, 9, 11} THEN 30
    ELSE IF m # 2 THEN 31
    ELSE IF y % 4 = 0 /\ (y % 100 # 0 \/ y % 400 = 0) THEN 29 ELSE 28

IsWordChar(c) == IsDigit(c) \/ c = "_" \/ LowerChar(c) # c \/ Lower(c) \in
    {"a", "b", "c", "d", "e", "f", "g", "h", "i", "j", "k", "l", "m",
     "n", "o", "p", "q", "r", "s", "t", "u", "v", "w", "x", "y", "z"}

\* COLLIERS_DATE_RE without its word boundaries, matched against all of s:
\* Mon, white space, one or two digits, a comma, white space, four digits
\* (one blank stands for each run of white space)
DateShape(s) ==
    LET k == Len(s) - 10 IN
    /\ k \in {1, 2}
    /\ SubSeq(s, 1, 3) \in Months
    /\ SubSeq(s, 4, 4) = " "
    /\ AllDigits(SubSeq(s, 5, 4 + k))
    /\ SubSeq(s, 5 + k, 6 + k) = ", "
    /\ AllDigits(SubSeq(s, 7 + k, 10 + k))

\* COLLIERS_DATE_RE.search(txt): the leftmost match (two day digits are
\* tried before one), "" when there is none
DateSearch(txt) ==
    LET At(i, n) ==
            /\ i + n - 1 <= Len(txt)
            /\ DateShape(SubSeq(txt, i, i + n - 1))
            /\ (i = 1 \/ ~IsWordChar(SubSeq(txt, i - 1, i - 1)))
            /\ (i + n - 1 = Len(txt) \/ ~IsWordChar(SubSeq(txt, i + n, i + n)))
        Hits == {i \in 1..Len(txt) : At(i, 12) \/ At(i, 11)}
    IN  IF Hits = {} THEN ""
        ELSE LET i == CHOOSE h \in Hits : \A g \in Hits : h <= g
             IN  IF At(i, 12) THEN SubSeq(txt, i, i + 11) ELSE SubSeq(txt, i, i + 10)

COLLIERS_SKIP_TEXT ==
    {"read more", "view more", "view all news", "view all", "view podcasts",
     "view media mentions", "learn more"}

COLLIERS_START_MARKERS ==
    <<"keep up with the latest commercial real estate news and trends",
      "keep up with the latest">>

COLLIERS_STOP_HEADINGS ==
    {"podcasts", "media mentions", "press releases / announcements", "knowledge leader"}

\* COLLIERS_ARTICLE_RE.match(url), which ignores case
COLLIERS_ARTICLE_RE(url) ==
    LET prefix == "https://www.colliers.com/en/news/"
        rest   == SubSeq(url, Len(prefix) + 1, Len(url))
        body   == IF rest # "" /\ SubSeq(rest, Len(rest), Len(rest)) = "/"
                  THEN SubSeq(rest, 1, Len(rest) - 1) ELSE rest
        k      == IndexOf(body, "/")
    IN  /\ StartsWith(Lower(url), prefix)
        /\ 1 < k /\ k < Len(body)
        /\ IndexOf(SubSeq(body, k + 1, Len(body)), "/") = 0
        /\ IndexOf(body, "?") = 0
        /\ IndexOf(body, "#") = 0

\* dateparser.parse(m) of a match m of COLLIERS_DATE_RE, with tzinfo UTC;
\* None where the parser raises
ParseDate(m) ==
    LET k == Len(m) - 10
        month == MonthNum(SubSeq(m, 1, 3))
        day   == ToInt(SubSeq(m, 5, 4 + k))
        year  == ToInt(SubSeq(m, 7 + k, 10 + k))
    IN  IF year < 1 \/ day < 1 \/ day > DaysIn(year, month) THEN NoDate
        ELSE <<year, month, day>>

\* the card is the node colliers_find_card_with_date returns: card_text is
\* its flattened text, card_ps the texts of its <p> descendants
colliers_extract_date(card_text) ==
    The({IF m = "" THEN NoDate ELSE ParseDate(m) : m \in {DateSearch(card_text)}})

RECURSIVE colliers_extract_description(_, _)
colliers_extract_description(card_ps, title) ==
    IF card_ps = <<>> THEN ""
    ELSE LET t == Head(card_ps)
             skip == \/ t = ""
                     \/ Strip(Lower(t)) \in COLLIERS_SKIP_TEXT
                     \/ Strip(t) = Strip(title)
                     \/ DateShape(Strip(t))
         IN  IF ~skip /\ 10 <= Len(t) /\ Len(t) <= 400 THEN t
             ELSE colliers_extract_description(Tail(card_ps), title)

\* lines 192-207: the upsert of one discovery into by_url
ColliersUpsert(m, url, title, desc, published) ==
    LET k == Lookup(m, url) IN
    IF k = 0
    THEN Append(m, [url |-> url, title |-> title, description |-> desc,
                    published |-> published, source |-> "Colliers"])
    ELSE [m EXCEPT ![k] =
            [@ EXCEPT !.published = IF @ = NoDate /\ published # NoDate THEN published ELSE @,
                      !.description = IF @ = "" /\ desc # "" THEN desc ELSE @,
                      !.title = IF Len(title) > Len(@) THEN title ELSE @]]

COLLIERS_LISTING == "https://www.colliers.com/en/news"

\* lines 172-190: what the loop body reads off one element before the
\* upsert; ok is FALSE where the body hits a continue
ColliersRead(listing_url, el) ==
    The({
        The({
            [ok |-> ok, url |-> url, title |-> el.text,
             published |-> IF ok THEN colliers_extract_date(el.card_text) ELSE NoDate,
             desc |-> IF ok THEN colliers_extract_description(el.card_ps, el.text)
                      ELSE ""] :
            ok \in {/\ el.name = "a"
                    /\ el.href # ""
                    /\ COLLIERS_ARTICLE_RE(url)
                    /\ el.text # ""
                    /\ Lower(Strip(el.text)) \notin COLLIERS_SKIP_TEXT}}) :
        url \in {normalize_url(listing_url, el.href)}})

-----------------------------------------------------------------------------
(* Inputs of get_colliers_items *)

Heading(text) == [name |-> "h2", text |-> text, href |-> "", card_text |-> "", card_ps |-> <<>>]

\* an anchor inside a card showing a date line (possibly empty), the anchor
\* text and the paragraphs ps
Anchor(href, text, date, ps) ==
    [name |-> "a", text |-> text, href |-> href,
     card_text |-> date \o " " \o text \o (IF ps = <<>> THEN "" ELSE " " \o ps[Len(ps)]),
     card_ps |-> ps]

HeadingInputs ==
    {Heading("Keep Up With The Latest News"), Heading("Podcasts"),
     Heading("MEDIA MENTIONS"), Heading("Our Podcasts")}

RegionAnchorInputs ==
    {Anchor("/en/news/us/q3", "Q3 Report", "", <<>>),
     Anchor("/en/news/us/deal/", "Market Update", "Feb 4, 2026", <<>>)}

CardDateInputs == {"", "Dec 31, 1969", "Feb 4, 2026"}

\* two URLs, one of them under two hrefs and two titles; a boilerplate
\* anchor and an anchor of a hub page
UpsertAnchorInputs ==
    {Anchor("/en/news/us/q3", "Q3 Report", d, <<>>) : d \in CardDateInputs}
    \cup {Anchor("https://www.colliers.com/en/news/us/q3/?ref=1#top",
                 "Q3 2025 Earnings Report", d,
                 <<"Read more", "Colliers reports strong results.">>) :
            d \in {"", "Feb 4, 2026"}}
    \cup {Anchor("/en/news/us/deal", "Market Update", d, <<>>) : d \in CardDateInputs}
    \cup {Anchor("/en/news/us/q3", "Read More", "Feb 4, 2026",
                 <<"Colliers reports strong results.">>),
          Anchor("/en/news/us", "Colliers News Hub", "Mar 9, 2026", <<>>)}

SeqsUpTo(S, n) == UNION {[1..k -> S] : k \in 0..n}

\* pages with section headings
RegionDocs == SeqsUpTo(HeadingInputs \cup RegionAnchorInputs, MaxDoc)

\* pages of article cards only
UpsertDocs == SeqsUpTo(UpsertAnchorInputs, MaxAnchors)

\* anchors of a Colliers page whose URLs the Northmarq scan accepts too
MergeAnchorInputs ==
    {Anchor("/en/news/transactions/deal-x-2025-01", "Colliers Deal X", "",
            <<"Colliers advised on the sale.">>),
     Anchor("/en/news/transactions/deal-x-2025-01", "Colliers Deal X", "Feb 4, 2026", <<>>),
     Anchor("/en/news/transactions/deal-y", "Colliers Deal Y", "Feb 4, 2026",
            <<"Colliers advised on the sale.">>),
     Anchor("/en/news/transactions/deal-y", "Colliers Deal Y", "", <<>>),
     Anchor("/en/news/us/deal", "Market Update", "Dec 31, 1969", <<>>)}

-----------------------------------------------------------------------------
(* The region of the page that is scanned *)

IsHeading(el) == el.name \in {"h1", "h2", "h3", "h4", "h5"}

\* the first heading of d whose lowered text contains one of the needles
\* (its position, 0 for None)
colliers_find_heading_containing(d, needles_lower) ==
    LET Hit(i) == /\ IsHeading(d[i])
                  /\ \E n \in 1..Len(needles_lower) :
                        Contains(Lower(Strip(d[i].text)), needles_lower[n])
    IN  IF \E i \in 1..Len(d) : Hit(i)
        THEN CHOOSE i \in 1..Len(d) : Hit(i) /\ \A j \in 1..(i - 1) : ~Hit(j)
        ELSE 0

\* the next heading after start_tag whose lowered text is in the stop set
colliers_find_next_stop_heading(d, start_tag, stop_set_lower) ==
    LET Hit(i) == IsHeading(d[i]) /\ Lower(Strip(d[i].text)) \in stop_set_lower
        After  == {i \in (start_tag + 1)..Len(d) : Hit(i)}
    IN  IF start_tag = 0 \/ After = {} THEN 0
        ELSE CHOOSE i \in After : \A j \in After : i <= j

\* an iteration that runs past the stop heading to the end of the page
IterToEnd(d, start_tag, stop_tag) ==
    IF start_tag = 0 THEN <<>> ELSE [k \in 1..(Len(d) - start_tag) |-> start_tag + k]

\* the positions after start_tag, up to and without stop_tag
colliers_iter_elements_between(d, start_tag, stop_tag) ==
    IF start_tag = 0 THEN <<>>
    ELSE LET last == IF stop_tag = 0 THEN Len(d) ELSE stop_tag - 1
         IN  [k \in 1..(last - start_tag) |-> start_tag + k]

\* a selection that takes every node of the page
ScanUnrestricted(d) == [k \in 1..Len(d) |-> k]

\* lines 155-167: the node list get_colliers_items scans
ColliersElements(d) ==
    The({
        IF start = 0
        THEN The({
                [k \in 1..(IF podcasts_heading = 0 THEN Len(d)
                           ELSE podcasts_heading - 1) |-> k] :
                podcasts_heading \in {colliers_find_heading_containing(d, <<"podcasts">>)}})
        ELSE The({
                colliers_iter_elements_between(d, start, stop) :
                stop \in {colliers_find_next_stop_heading(d, start,
                                                          COLLIERS_STOP_HEADINGS)}}) :
        start \in {colliers_find_heading_containing(d, COLLIERS_START_MARKERS)}})

-----------------------------------------------------------------------------
(* get_colliers_items *)

\* lines 171-207: one pass of the loop body
ColliersStep(m, el) ==
    The({
        IF d.ok THEN ColliersUpsert(m, d.url, d.title, d.desc, d.published) ELSE m :
        d \in {ColliersRead(COLLIERS_LISTING, el)}})

ColliersSelectRegion ==
    /\ pc = "colliers_region"
    /\ elements' = ColliersElements(doc)
    /\ by_url' = <<>>
    /\ idx' = 1
    /\ pc' = "colliers_scan"
    /\ UNCHANGED <<doc, limit, pages, page, articles, lists, li, items>>

ColliersScanElement ==
    /\ pc = "colliers_scan"
    /\ idx <= Len(elements)
    /\ by_url' = ColliersStep(by_url, doc[elements[idx]])
    /\ idx' = idx + 1
    /\ UNCHANGED <<pc, doc, elements, limit, pages, page, articles, lists, li, items>>

ColliersReturn ==
    /\ pc = "colliers_scan"
    /\ idx > Len(elements)
    /\ items' = Truncate(SortItems(by_url), limit)
    /\ pc' = "colliers_done"
    /\ UNCHANGED <<doc, elements, idx, limit, pages, page, articles, lists, li, by_url>>

-----------------------------------------------------------------------------
(* Northmarq: Transactions via the "load more" endpoint *)

NORTHMARQ_BASE_SITE == "https://www.northmarq.com"

\* NORTHMARQ_YM_RE.search(url): the position of the leftmost
\* -YYYY-MM that ends the URL or a path segment, 0 when there is none
NorthmarqYMSearch(url) ==
    LET At(i) ==
            /\ i + 7 <= Len(url)
            /\ SubSeq(url, i, i) = "-"
            /\ AllDigits(SubSeq(url, i + 1, i + 4))
            /\ SubSeq(url, i + 5, i + 5) = "-"
            /\ AllDigits(SubSeq(url, i + 6, i + 7))
            /\ (i + 7 = Len(url) \/ SubSeq(url, i + 8, i + 8) = "/")
        Hits == {i \in 1..Len(url) : At(i)}
    IN  IF Hits = {} THEN 0 ELSE CHOOSE h \in Hits : \A g \in Hits : h <= g

\* datetime(year, month, 1) raises ValueError out of the scan
NorthmarqDateRaises(url) ==
    The({
        /\ i # 0
        /\ \/ ToInt(SubSeq(url, i + 1, i + 4)) < 1
           \/ ToInt(SubSeq(url, i + 6, i + 7)) \notin 1..12 :
        i \in {NorthmarqYMSearch(url)}})

northmarq_published_from_url(url) ==
    The({
        IF i = 0 THEN NoDate
        ELSE <<ToInt(SubSeq(url, i + 1, i + 4)), ToInt(SubSeq(url, i + 6, i + 7)), 1>> :
        i \in {NorthmarqYMSearch(url)}})

RECURSIVE Join(_, _)
Join(parts, sep) ==
    IF parts = <<>> THEN ""
    ELSE IF Len(parts) = 1 THEN parts[1]
    ELSE parts[1] \o sep \o Join(Tail(parts), sep)

NonEmpty(seq) == SelectSeq(seq, LAMBDA x : x # "")

\* the separator literal of line 286
NORTHMARQ_SEP == " - "

\* lines 253-288: what the loop body reads off one <article>; an absent
\* element (a, h3, locality, administrative-area, price) is the empty
\* sequence, a present one the one-element sequence of its content
NorthmarqRead(article) ==
    The({
        LET ok       == article.a # <<>> /\ Contains(full_url, "/transactions/")
            label    == IF article.a # <<>> THEN Strip(article.a[1].aria_label) ELSE ""
            title    == IF label # "" THEN label
                        ELSE IF article.h3 # <<>> THEN Strip(article.h3[1])
                        ELSE full_url
            deal_types == Join(uniq_preserve(NonEmpty(article.deal_types)), ", ")
            location ==
                IF article.locality # <<>> /\ article.admin # <<>>
                THEN article.locality[1] \o ", " \o article.admin[1]
                ELSE IF article.locality # <<>> THEN article.locality[1]
                ELSE ""
            price    == IF article.price # <<>> THEN article.price[1] ELSE ""
            desc     == Join(NonEmpty(<<deal_types, location, price>>), NORTHMARQ_SEP)
        IN  [ok |-> ok, url |-> full_url, title |-> title, desc |-> desc,
             raises |-> ok /\ NorthmarqDateRaises(full_url),
             published |-> IF ok /\ ~NorthmarqDateRaises(full_url)
                           THEN northmarq_published_from_url(full_url) ELSE NoDate] :
        full_url \in {normalize_url(NORTHMARQ_BASE_SITE,
                                    IF article.a # <<>> THEN article.a[1].href ELSE "")}})

\* lines 290-297: first discovery wins
NorthmarqUpsert(m, url, title, desc, published) ==
    IF Lookup(m, url) = 0
    THEN Append(m, [url |-> url, title |-> title, description |-> desc,
                    published |-> published, source |-> "Northmarq"])
    ELSE m

-----------------------------------------------------------------------------
(* Inputs of get_northmarq_items *)

Article(href, aria_label, h3, deal_types, locality, admin, price) ==
    [a |-> <<[href |-> href, aria_label |-> aria_label]>>, h3 |-> h3,
     deal_types |-> deal_types, locality |-> locality, admin |-> admin, price |-> price]

NoAnchorArticle ==
    [a |-> <<>>, h3 |-> <<"Sponsored">>, deal_types |-> <<>>, locality |-> <<>>,
     admin |-> <<>>, price |-> <<>>]

ArticleInputs ==
    {Article("/transactions/deal-a-2025-01", "Q3 Report", <<>>,
             <<"Sale", "", "Sale", "Lease">>, <<"Austin">>, <<"TX">>, <<"$1M">>),
     Article("https://www.northmarq.com/transactions/deal-a-2025-01/?page=2",
             "Q3 2025 Earnings Report", <<>>, <<>>, <<>>, <<>>, <<>>),
     Article("/transactions/deal-c-1969-12", " Read More ", <<>>, <<>>, <<>>, <<>>, <<>>),
     Article("/transactions/deal-d", "", <<>>, <<>>, <<>>, <<"TX">>, <<"$2M">>),
     Article("/transactions/deal-e-2025-13", "Bad Month", <<>>, <<>>, <<>>, <<>>, <<>>),
     Article("/about", "About Us", <<>>, <<>>, <<>>, <<>>, <<>>),
     NoAnchorArticle}

\* <article> cards of a Northmarq page that link to the Colliers site
MergeArticleInputs ==
    {Article("https://www.colliers.com/en/news/transactions/deal-x-2025-01",
             "Northmarq Deal X", <<>>, <<>>, <<>>, <<>>, <<>>),
     Article("https://www.colliers.com/en/news/transactions/deal-y",
             "Northmarq Deal Y", <<>>, <<"Sale">>, <<>>, <<>>, <<"$3M">>),
     Article("/transactions/deal-b-2026-02", "", <<"Market Update">>,
             <<>>, <<"Austin">>, <<>>, <<>>)}

PageInputs == SeqsUpTo(ArticleInputs, MaxArticles)

-----------------------------------------------------------------------------
(* get_northmarq_items *)

\* session.get of page number page and soup.find_all("article")
NorthmarqFetchPage ==
    /\ pc = "northmarq_fetch"
    /\ \E arts \in PageInputs : articles' = arts
    /\ idx' = 1
    /\ pc' = "northmarq_scan"
    /\ UNCHANGED <<doc, elements, limit, pages, page, lists, li, by_url, items>>

\* one pass of the loop body of lines 252-300
NorthmarqScanArticle ==
    /\ pc = "northmarq_scan"
    /\ idx <= Len(articles)
    /\ \E d \in {NorthmarqRead(articles[idx])} :
       \E m \in {NorthmarqUpsert(by_url, d.url, d.title, d.desc, d.published)} :
           IF ~d.ok
           THEN /\ idx' = idx + 1
                /\ UNCHANGED <<pc, by_url>>
           ELSE IF d.raises
           THEN /\ pc' = "northmarq_raised"
                /\ UNCHANGED <<idx, by_url>>
           ELSE /\ by_url' = m
                /\ IF Len(m) >= limit
                   THEN pc' = "northmarq_page_end" /\ idx' = idx
                   ELSE pc' = pc /\ idx' = idx + 1
    /\ UNCHANGED <<doc, elements, limit, pages, page, articles, lists, li, items>>

\* the inner loop runs out of articles
NorthmarqArticlesDone ==
    /\ pc = "northmarq_scan"
    /\ idx > Len(articles)
    /\ pc' = "northmarq_page_end"
    /\ UNCHANGED <<doc, elements, idx, limit, pages, page, articles, lists, li, by_url, items>>

\* lines 302-306 and the step of the page loop
NorthmarqPageEnd ==
    /\ pc = "northmarq_page_end"
    /\ IF Len(by_url) >= limit \/ page + 1 > pages
       THEN pc' = "northmarq_return" /\ page' = page
       ELSE pc' = "northmarq_fetch" /\ page' = page + 1
    /\ UNCHANGED <<doc, elements, idx, limit, pages, articles, lists, li, by_url, items>>

NorthmarqReturn ==
    /\ pc = "northmarq_return"
    /\ items' = Truncate(SortItems(by_url), limit)
    /\ pc' = "northmarq_done"
    /\ UNCHANGED <<doc, elements, idx, limit, pages, page, articles, lists, li, by_url>>

InitNorthmarq ==
    /\ pc = "northmarq_fetch"
    /\ pages \in 1..MaxPages
    /\ limit \in 1..MaxLimit
    /\ page = 1
    /\ articles = <<>> /\ idx = 1
    /\ doc = <<>> /\ elements = <<>>
    /\ lists = <<>> /\ li = 0
    /\ by_url = <<>> /\ items = <<>>

-----------------------------------------------------------------------------
(* Merge *)

\* lines 320-327: one pass of the inner loop body
MergeUpsert(m, it) ==
    LET k == Lookup(m, it.url) IN
    IF k = 0 THEN Append(m, it)
    ELSE IF m[k].published = NoDate /\ it.published # NoDate THEN [m EXCEPT ![k] = it]
    ELSE m

MergeStep ==
    /\ pc = "merge_scan"
    /\ li <= Len(lists)
    /\ idx <= Len(lists[li])
    /\ by_url' = MergeUpsert(by_url, lists[li][idx])
    /\ idx' = idx + 1
    /\ UNCHANGED <<pc, doc, elements, limit, pages, page, articles, lists, li, items>>

MergeNextList ==
    /\ pc = "merge_scan"
    /\ li <= Len(lists)
    /\ idx > Len(lists[li])
    /\ li' = li + 1
    /\ idx' = 1
    /\ UNCHANGED <<pc, doc, elements, limit, pages, page, articles, lists, by_url, items>>

MergeReturn ==
    /\ pc = "merge_scan"
    /\ li > Len(lists)
    /\ items' = Truncate(SortItems(by_url), limit)
    /\ pc' = "merge_done"
    /\ UNCHANGED <<doc, elements, idx, limit, pages, page, articles, lists, li, by_url>>

-----------------------------------------------------------------------------
(* Inputs of merge_items: lists the two scans return *)

\* the record a scan stores for a URL it discovers once
ColliersRecordInputs == {ColliersStep(<<>>, el)[1] : el \in MergeAnchorInputs}

NorthmarqRecordInputs ==
    {NorthmarqUpsert(<<>>, d.url, d.title, d.desc, d.published)[1] :
        d \in {NorthmarqRead(art) : art \in MergeArticleInputs}}

\* what a scan returns when it discovers the records of R, each once and in
\* any order: one record per URL, sorted
ScanOutputs(R) ==
    {SortItems(s) : s \in {t \in SeqsUpTo(R, MaxList) :
                            \A i, j \in 1..Len(t) : i < j => t[i].url # t[j].url}}

ColliersLists == ScanOutputs(ColliersRecordInputs)

NorthmarqLists == ScanOutputs(NorthmarqRecordInputs)

InitMerge ==
    /\ pc = "merge_scan"
    /\ \E c \in ColliersLists, n \in NorthmarqLists : lists \in {<<c, n>>, <<n, c>>}
    /\ limit \in 1..MaxLimit
    /\ li = 1 /\ idx = 1
    /\ doc = <<>> /\ elements = <<>>
    /\ pages = 0 /\ page = 0 /\ articles = <<>>
    /\ by_url = <<>> /\ items = <<>>

-----------------------------------------------------------------------------
InitColliers ==
    /\ pc = "colliers_region"
    /\ \/ doc \in RegionDocs /\ limit = MaxLimit
       \/ doc \in UpsertDocs /\ limit \in 1..MaxLimit
    /\ elements = <<>> /\ idx = 1
    /\ pages = 0 /\ page = 0 /\ articles = <<>>
    /\ lists = <<>> /\ li = 0
    /\ by_url = <<>> /\ items = <<>>

Init == InitColliers \/ InitNorthmarq \/ InitMerge

Next ==
    \/ ColliersSelectRegion
    \/ ColliersScanElement
    \/ ColliersReturn
    \/ NorthmarqFetchPage
    \/ NorthmarqScanArticle
    \/ NorthmarqArticlesDone
    \/ NorthmarqPageEnd
    \/ NorthmarqReturn
    \/ MergeStep
    \/ MergeNextList
    \/ MergeReturn

Spec == Init /\ [][Next]_vars

-----------------------------------------------------------------------------
(* Properties *)

Urls(s) == {s[i].url : i \in 1..Len(s)}

NoDupUrls(s) == \A i, j \in 1..Len(s) : i # j => s[i].url # s[j].url

Done == pc \in {"colliers_done", "northmarq_done", "merge_done"}

ColliersScanning == pc \in {"colliers_scan", "colliers_done"}

\* what get_colliers_items reads off the element at position e of the page
ReadAt(e) == ColliersRead(COLLIERS_LISTING, doc[e])

\* the dict built by scanning positions lo..hi of d and nothing else
RECURSIVE ScanRange(_, _, _)
ScanRange(d, lo, hi) ==
    IF hi < lo THEN <<>> ELSE ColliersStep(ScanRange(d, lo, hi - 1), d[hi])

\* the date a record is ordered by when an undated one counts as dated at
\* the instant e
DatedAt(r, e) == IF r.published = NoDate THEN e ELSE r.published

-----------------------------------------------------------------------------
\* C1: no two records of a record map or of a returned list share a url;
\* a returned list holds min(limit, number of URLs) records, each the one
\* record its map holds; the map of get_colliers_items has exactly the URLs
\* of the accepted anchors of the scanned region, the map of merge_items
\* exactly the URLs of its input lists.
DedupInvariant ==
    /\ NoDupUrls(by_url)
    /\ NoDupUrls(items)
    /\ Done =>
        /\ Len(items) = IF limit < Len(by_url) THEN limit ELSE Len(by_url)
        /\ \A i \in 1..Len(items) : \E k \in 1..Len(by_url) : items[i] = by_url[k]
    /\ pc = "colliers_done" =>
        Urls(by_url) = {ReadAt(elements[e]).url :
                            e \in {x \in 1..Len(elements) : ReadAt(elements[x]).ok}}
    /\ pc = "merge_done" => Urls(by_url) = UNION {Urls(lists[l]) : l \in 1..Len(lists)}

\* two anchors with different hrefs and one normalized URL were scanned and
\* one record was returned for them
DedupWitness ==
    /\ pc = "colliers_done"
    /\ Len(items) = 1
    /\ \E i, j \in 1..Len(elements) :
        /\ i < j
        /\ doc[elements[i]].href # doc[elements[j]].href
        /\ ReadAt(elements[i]).ok /\ ReadAt(elements[j]).ok
        /\ ReadAt(elements[i]).url = ReadAt(elements[j]).url

-----------------------------------------------------------------------------
\* C2: no step of a scan or of the merge leaves a record that had a
\* non-empty description with an empty one, or a record that had a publish
\* date without one or with an earlier one.
UpgradeMonotonicity ==
    [][\A k \in 1..Len(by_url) :
        k <= Len(by_url') =>
            /\ by_url[k].description # "" => by_url'[k].description # ""
            /\ by_url[k].published # NoDate =>
                /\ by_url'[k].published # NoDate
                /\ ~DateLess(by_url'[k].published, by_url[k].published)]_vars

-----------------------------------------------------------------------------
\* C3 (as the code has it): in a returned list a record with the later
\* publish date comes first, where a record with no publish date is ordered
\* as if dated at EPOCH, 1970-01-01: it comes after every record dated
\* later than EPOCH and before every record dated earlier.
SortCorrectness ==
    \A i, j \in 1..Len(items) :
        DateLess(DatedAt(items[j], EPOCH), DatedAt(items[i], EPOCH)) => i < j

\* a returned list with an undated record and a record dated before EPOCH
SortWitness ==
    /\ Done
    /\ \E i, j \in 1..Len(items) :
        /\ items[i].published = NoDate
        /\ items[j].published # NoDate
        /\ DateLess(items[j].published, EPOCH)

\* C3 as stated: the record with the later date comes first and every
\* undated record comes after every dated record.
SortUndatedLast ==
    \A i, j \in 1..Len(items) :
        /\ (/\ items[i].published # NoDate
            /\ items[j].published # NoDate
            /\ DateLess(items[j].published, items[i].published)) => i < j
        /\ (items[i].published = NoDate /\ items[j].published # NoDate) => j < i

-----------------------------------------------------------------------------
\* C4: no record a finished scan or merge could have returned and left out
\* is more recent than a record it returned: for get_northmarq_items the
\* candidates are the accepted cards of the one page it fetched, for
\* get_colliers_items and merge_items the records of the map.
SortBeforeTruncate ==
    /\ (pc = "northmarq_done" /\ page = 1) =>
        \A k \in 1..Len(articles) :
            \A d \in {NorthmarqRead(articles[k])} :
                (d.ok /\ ~d.raises /\ d.url \notin Urls(items)) =>
                    \A i \in 1..Len(items) :
                        ~DateLess(DatedAt(items[i], EPOCH), DatedAt(d, EPOCH))
    /\ pc \in {"colliers_done", "merge_done"} =>
        \A k \in 1..Len(by_url) :
            by_url[k].url \notin Urls(items) =>
                \A i \in 1..Len(items) :
                    ~DateLess(DatedAt(items[i], EPOCH), DatedAt(by_url[k], EPOCH))

-----------------------------------------------------------------------------
\* C5: during and after get_colliers_items the date of a record is not
\* earlier than any date discovered for its URL so far.
KeepsLaterDate ==
    ColliersScanning =>
        \A k \in 1..Len(by_url) :
            \A e \in 1..(idx - 1) :
                \A d \in {ReadAt(elements[e])} :
                    (d.ok /\ d.url = by_url[k].url /\ d.published # NoDate) =>
                        /\ by_url[k].published # NoDate
                        /\ ~DateLess(by_url[k].published, d.published)

-----------------------------------------------------------------------------
\* C6: no record of a record map or of a returned list has a title that is
\* a boilerplate phrase when lowered.
NoBoilerplateTitle ==
    /\ \A k \in 1..Len(by_url) : Lower(Strip(by_url[k].title)) \notin COLLIERS_SKIP_TEXT
    /\ \A k \in 1..Len(items) : Lower(Strip(items[k].title)) \notin COLLIERS_SKIP_TEXT

-----------------------------------------------------------------------------
HasStartMarker(el) ==
    /\ IsHeading(el)
    /\ \E n \in 1..Len(COLLIERS_START_MARKERS) :
        Contains(Lower(Strip(el.text)), COLLIERS_START_MARKERS[n])

IsStopHeading(el) == IsHeading(el) /\ Lower(Strip(el.text)) \in COLLIERS_STOP_HEADINGS

\* s is the first heading with a start marker and t the first stop heading
\* after it
RegionBounds(s, t) ==
    /\ s < t
    /\ HasStartMarker(doc[s])
    /\ \A j \in 1..(s - 1) : ~HasStartMarker(doc[j])
    /\ IsStopHeading(doc[t])
    /\ \A j \in (s + 1)..(t - 1) : ~IsStopHeading(doc[j])

\* C7: on a page with a start heading s and a stop heading t after it,
\* get_colliers_items scans exactly the nodes strictly between s and t, and
\* the records it has built are those of scanning these nodes alone.
RegionRestriction ==
    ColliersScanning =>
        \A s \in 1..Len(doc) :
            (HasStartMarker(doc[s]) /\ \A j \in 1..(s - 1) : ~HasStartMarker(doc[j])) =>
                \A t \in (s + 1)..Len(doc) :
                    (IsStopHeading(doc[t]) /\ \A j \in (s + 1)..(t - 1) : ~IsStopHeading(doc[j])) =>
                        /\ elements = [k \in 1..(t - s - 1) |-> s + k]
                        /\ pc = "colliers_done" => by_url = ScanRange(doc, s + 1, t - 1)

\* a finished scan of a page with an accepted anchor between the two
\* headings and another one after the stop heading
RegionWitness ==
    /\ pc = "colliers_done"
    /\ \E s, t \in 1..Len(doc) :
        /\ RegionBounds(s, t)
        /\ \E e \in (s + 1)..(t - 1) : ReadAt(e).ok
        /\ \E e \in (t + 1)..Len(doc) : ReadAt(e).ok /\ ReadAt(e).url \notin Urls(by_url)

-----------------------------------------------------------------------------
\* C8: a step of merge_items leaves the source label, the title and the
\* description of every record of the merged map as they were, and changes
\* a publish date only where there was none.
MergeFrame ==
    [][pc = "merge_scan" =>
        \A k \in 1..Len(by_url) :
            /\ by_url'[k].source = by_url[k].source
            /\ by_url'[k].title = by_url[k].title
            /\ by_url'[k].description = by_url[k].description
            /\ by_url[k].published # NoDate => by_url'[k].published = by_url[k].published]_vars

-----------------------------------------------------------------------------
\* C9: while a source is scanned, the title of a record is at least as long
\* as every title discovered for its URL so far (on the page being scanned,
\* for get_northmarq_items).
LongestTitle ==
    /\ ColliersScanning =>
        \A k \in 1..Len(by_url) :
            \A e \in 1..(idx - 1) :
                \A d \in {ReadAt(elements[e])} :
                    (d.ok /\ d.url = by_url[k].url) => Len(d.title) <= Len(by_url[k].title)
    /\ pc = "northmarq_scan" =>
        \A k \in 1..Len(by_url) :
            \A e \in 1..(idx - 1) :
                \A d \in {NorthmarqRead(articles[e])} :
                    (d.ok /\ ~d.raises /\ d.url = by_url[k].url) =>
                        Len(d.title) <= Len(by_url[k].title)

-----------------------------------------------------------------------------
NoStartHeading == \A j \in 1..Len(doc) : ~HasStartMarker(doc[j])

\* the number of nodes before the first of the positions H, all nodes when
\* H is empty
NodesBefore(H) ==
    IF H = {} THEN Len(doc) ELSE (CHOOSE j \in H : \A i \in H : j <= i) - 1

IsPodcastsHeading(el) == IsHeading(el) /\ Contains(Lower(Strip(el.text)), "podcasts")

MatchesStopPhrase(el) ==
    /\ IsHeading(el)
    /\ \E phrase \in COLLIERS_STOP_HEADINGS : Contains(Lower(Strip(el.text)), phrase)

\* C10 (as the code has it): on a page with no start heading,
\* get_colliers_items scans exactly the nodes before the first heading whose
\* lowered text contains "podcasts", the whole page when there is none, and
\* the records it has built are those of scanning these nodes alone.
RegionFallback ==
    (ColliersScanning /\ NoStartHeading) =>
        /\ elements = [k \in 1..NodesBefore({j \in 1..Len(doc) : IsPodcastsHeading(doc[j])}) |-> k]
        /\ pc = "colliers_done" => by_url = ScanRange(doc, 1, NodesBefore({j \in 1..Len(doc) : IsPodcastsHeading(doc[j])}))

\* a finished scan of a page with no start heading, an accepted anchor
\* after a "media mentions" heading that was recorded, and an accepted
\* anchor after a "podcasts" heading that was not
FallbackWitness ==
    /\ pc = "colliers_done"
    /\ NoStartHeading
    /\ \E q, e, p, f \in 1..Len(doc) :
        /\ q < e /\ e < p /\ p < f
        /\ IsStopHeading(doc[q]) /\ ~IsPodcastsHeading(doc[q])
        /\ ReadAt(e).ok /\ ReadAt(e).url \in Urls(by_url)
        /\ IsPodcastsHeading(doc[p])
        /\ ReadAt(f).ok /\ ReadAt(f).url \notin Urls(by_url)

\* C10 as stated: on a page with no start heading, get_colliers_items scans
\* exactly the nodes before the first heading whose text matches any of
\* the stop phrases, the whole page when there is none.
RegionFallbackAnyStop ==
    (ColliersScanning /\ NoStartHeading) =>
        elements = [k \in 1..NodesBefore({j \in 1..Len(doc) : MatchesStopPhrase(doc[j])}) |-> k]

====
